---- MODULE Spec2Model ----
\* Model of the chat client in src/src/app/components/Chat.tsx: the streaming
\* think/answer splitter (the useEffect on `messages`), the useChat callbacks
\* that drive it, parseMessage, and the branch selection of the render step;
\* and of the relay in src/src/app/api/deepseek/chat/route.ts (POST).
\*
\* Text is modelled at character level: a string is a sequence of
\* one-character strings, so that a tag can be cut by a chunk boundary and
\* trim(), match() and replace() are computed rather than assumed.
EXTENDS Integers, Sequences, FiniteSets

VARIABLES
    lastMessage,        \* messages[messages.length - 1] (Chat.tsx:55, 71) of the last committed render: [role, content]; role "none" = empty list
    arrived,            \* useChat: a chunk added to `messages` that no render has committed yet; NoChunk = none
    isLoading,          \* useChat's isLoading (Chat.tsx:55): a request is in flight
    streamingState,     \* the useState<StreamingState> cell (Chat.tsx:45-49), every queued write applied
    rendered,           \* streamingState as the last committed render saw it: what is shown, and what the effect's closure reads (Chat.tsx:96, 146)
    effectPending,      \* a render with a new `messages` is committed and its effect (Chat.tsx:68-107) has not run yet
    thinkingStartTime,  \* the thinkingStartTime ref (Chat.tsx:52); NullTime = null
    prevMessage,        \* useChat: the last message of the list before the submit, while no response has arrived
    nChunks,            \* number of chunks delivered so far in the run (bounded)
    startState,         \* history: streamingState when the current assistant message began
    continued,          \* history: the last change of `messages` extended an assistant message that was already there
    lastEnd,            \* history: how the previous stream ended ("none", "finish", "fail")
    lastChunk,          \* history: the chunk delivered last
    relayPc,            \* POST (route.ts:11-35): position of the handler
    relayRequest,       \* POST: `messages` of the request body (route.ts:12)
    upstreamCalls       \* POST: the message lists passed to completions.create for this request

chatVars == <<lastMessage, arrived, isLoading, streamingState, rendered, effectPending,
              thinkingStartTime, prevMessage, nChunks, startState, continued,
              lastEnd, lastChunk>>

relayVars == <<relayPc, relayRequest, upstreamCalls>>

vars == <<chatVars, relayVars>>

------------------------------------------------------------------------------
\* Bounds of the model.

\* Total number of stream chunks delivered in one run.
MaxChunks == 4

\* Date.now() returns a value in 1..MaxClock.
MaxClock == 1

\* Longest message list a request to the relay carries.
MaxMessages == 2

------------------------------------------------------------------------------
\* Text.

OpenTag == <<"<", "t", "h", "i", "n", "k", ">">>

CloseTag == <<"<", "/", "t", "h", "i", "n", "k", ">">>

\* The characters String.prototype.trim removes, as far as the inputs use them.
WhiteSpace == {" ", "\n"}

\* The chunks a stream may deliver: whole tags, tags cut in two
\* ("<th" + "ink>", "</th" + "ink>"), a letter and a blank.
Chunks ==
    { OpenTag,
      CloseTag,
      <<"<", "t", "h">>,
      <<"<", "/", "t", "h">>,
      <<"i", "n", "k", ">">>,
      <<"a">>,
      <<" ">> }

\* The texts a user may submit (a user message may itself contain a tag).
UserInputs == { <<"H", "i">>, OpenTag }

SetMin(S) == CHOOSE x \in S : \A y \in S : x <= y

SetMax(S) == CHOOSE x \in S : \A y \in S : x >= y

\* pat occurs in s at (1-based) position i.
StartsAt(s, pat, i) ==
    /\ i >= 1
    /\ i + Len(pat) - 1 <= Len(s)
    /\ SubSeq(s, i, i + Len(pat) - 1) = pat

\* s.indexOf(pat, from), 1-based; 0 when pat does not occur (JavaScript's -1).
IndexOf(s, pat, from) ==
    LET hits == { i \in from..(Len(s) - Len(pat) + 1) : StartsAt(s, pat, i) }
    IN  IF hits = {} THEN 0 ELSE SetMin(hits)

\* s.includes(pat)
Includes(s, pat) == IndexOf(s, pat, 1) # 0

\* s.trim()
Trim(s) ==
    LET solid == { i \in 1..Len(s) : s[i] \notin WhiteSpace }
    IN  IF solid = {} THEN <<>> ELSE SubSeq(s, SetMin(solid), SetMax(solid))

\* s.replace(pat, '') with a string pattern: the first occurrence is removed.
ReplaceFirst(s, pat) ==
    LET i == IndexOf(s, pat, 1)
    IN  IF i = 0 THEN s
        ELSE SubSeq(s, 1, i - 1) \o SubSeq(s, i + Len(pat), Len(s))

\* A greedy variant of the regular expression: the interior runs to the LAST
\* closing tag.
ThinkMatchGreedy(content) ==
    LET open  == IndexOf(content, OpenTag, 1)
        closes == IF open = 0 THEN {}
                  ELSE { i \in (open + Len(OpenTag))..Len(content) :
                           StartsAt(content, CloseTag, i) }
    IN  IF closes = {}
        THEN [found |-> FALSE, index |-> 0, last |-> 0, group |-> <<>>]
        ELSE [found |-> TRUE,
              index |-> open,
              last  |-> SetMax(closes) + Len(CloseTag) - 1,
              group |-> SubSeq(content, open + Len(OpenTag), SetMax(closes) - 1)]

\* content.match(/<think>([^]*?)<\/think>/): the leftmost match starts at the
\* first opening tag that has a closing tag after it (which is the first
\* opening tag, if any has), and the lazy group ends before the first closing
\* tag after it. index..last is the matched region, group the capture.
ThinkMatch(content) ==
    LET open  == IndexOf(content, OpenTag, 1)
        close == IF open = 0 THEN 0
                 ELSE IndexOf(content, CloseTag, open + Len(OpenTag))
    IN  IF close = 0
        THEN [found |-> FALSE, index |-> 0, last |-> 0, group |-> <<>>]
        ELSE [found |-> TRUE,
              index |-> open,
              last  |-> close + Len(CloseTag) - 1,
              group |-> SubSeq(content, open + Len(OpenTag), close - 1)]

\* content.replace(thinkRegex, ''): the matched region is removed.
ReplaceMatch(content) ==
    LET m == ThinkMatch(content)
    IN  IF m.found
        THEN SubSeq(content, 1, m.index - 1) \o SubSeq(content, m.last + 1, Len(content))
        ELSE content

------------------------------------------------------------------------------
\* parseMessage (used by the render step for every assistant message).
\* Without a match the returned object has no `thinking` field.

parseMessage(content) ==
    IF ThinkMatch(content).found
    THEN [thinking |-> Trim(ThinkMatch(content).group),
          content  |-> Trim(ReplaceMatch(content))]
    ELSE [content |-> Trim(content)]

------------------------------------------------------------------------------
\* StreamingState and the streaming effect.

ResetState == [thinking |-> <<>>, content |-> <<>>, isThinking |-> TRUE]

NullTime == 0

\* A variant of branch 1 that leaves the tagged region in content.
MatchedPairKeepsRegion(content) ==
    [thinking   |-> Trim(ThinkMatch(content).group),
     content    |-> Trim(content),
     isThinking |-> FALSE]

\* Branch 1: both tags present.
MatchedPair(content) ==
    [thinking   |-> Trim(ThinkMatch(content).group),
     content    |-> Trim(ReplaceMatch(content)),
     isThinking |-> FALSE]

\* Branch 2: an opening tag, no match.
OpenTagOnly(content) ==
    [thinking   |-> Trim(ReplaceFirst(content, OpenTag)),
     content    |-> <<>>,
     isThinking |-> TRUE]

\* A variant of branch 3 that does not trim.
ThinkingModeUntrimmed(prev, content) ==
    [prev EXCEPT !.thinking = content]

\* Branch 3: no opening tag, thinking mode.
ThinkingMode(prev, content) ==
    [prev EXCEPT !.thinking = Trim(content)]

\* A variant of branch 4 that drops the thinking text already held.
ContentModeClearsThinking(prev, content) ==
    [thinking |-> <<>>, content |-> Trim(content), isThinking |-> prev.isThinking]

\* Branch 4: no opening tag, content mode.
ContentMode(prev, content) ==
    [prev EXCEPT !.content = Trim(content)]

\* A variant of the effect written as a latched state machine: once the state
\* is in content mode, the buffer is no longer scanned for tags.
StreamingEffectLatched(closure, prev, content) ==
    IF ~closure.isThinking THEN ContentMode(prev, content)
    ELSE IF ThinkMatch(content).found THEN MatchedPair(content)
    ELSE IF Includes(content, OpenTag) THEN OpenTagOnly(content)
    ELSE ThinkingMode(prev, content)

\* The StreamingState the effect sets for a last assistant message `content`.
\* `closure` is the streamingState of the render that scheduled the effect
\* (line 96 reads it); `prev` is the value of the cell when the write is
\* applied (lines 97 and 102 pass an updater). Lines 84 and 91 set a value.
StreamingEffect(closure, prev, content) ==
    IF ThinkMatch(content).found THEN MatchedPair(content)
    ELSE IF Includes(content, OpenTag) THEN OpenTagOnly(content)
    ELSE IF closure.isThinking THEN ThinkingMode(prev, content)
    ELSE ContentMode(prev, content)

\* The value the effect leaves in the thinkingStartTime ref; now = Date.now().
TimingEffect(time, content, now) ==
    IF ThinkMatch(content).found THEN NullTime
    ELSE IF Includes(content, OpenTag) /\ time = NullTime THEN now
    ELSE time

\* A variant of the effect without the role check: the parser also runs on a
\* user message.
RunEffectAnyRole(closure, prev, last) ==
    IF last.role = "none" THEN prev
    ELSE StreamingEffect(closure, prev, last.content)

\* The whole effect on `messages`, given the last message (role "none": the
\* list is empty): it returns early, writing nothing, unless the last message
\* is an assistant message.
RunEffect(closure, prev, last) ==
    IF last.role = "none" THEN prev
    ELSE IF last.role # "assistant" THEN prev
    ELSE StreamingEffect(closure, prev, last.content)

\* The same for the thinkingStartTime ref.
RunTiming(time, last, now) ==
    IF last.role = "none" THEN time
    ELSE IF last.role # "assistant" THEN time
    ELSE TimingEffect(time, last.content, now)

------------------------------------------------------------------------------
\* The render step, for the last message. A render shows the streamingState it
\* was committed with (`rendered`).

\* Line 146: the streaming branch is taken.
StreamingView ==
    /\ lastMessage.role = "assistant"
    /\ (rendered.thinking # <<>> \/ rendered.content # <<>>)

\* The text of the thinking panel shown for the last assistant message;
\* <<>> = no panel.
ShownThinking ==
    IF StreamingView THEN rendered.thinking
    ELSE IF "thinking" \in DOMAIN parseMessage(lastMessage.content)
         THEN parseMessage(lastMessage.content).thinking
         ELSE <<>>

\* The answer text shown for the last assistant message; <<>> = none.
ShownAnswer ==
    IF StreamingView THEN rendered.content
    ELSE parseMessage(lastMessage.content).content

------------------------------------------------------------------------------
\* State machine. A change of `messages` commits a render; the effect of that
\* render runs in a later step, before the next render, and the callbacks of
\* useChat may run in between.

NoMessage == [role |-> "none", content |-> <<>>]

NoChunk == <<>>

\* The last message of the list once `chunk` is added to it.
Extended(last, chunk) ==
    [role    |-> "assistant",
     content |-> IF last.role = "assistant" THEN last.content \o chunk
                 ELSE chunk]

Init ==
    /\ lastMessage = NoMessage
    /\ arrived = NoChunk
    /\ isLoading = FALSE
    /\ streamingState = RunEffect(ResetState, ResetState, NoMessage)
    /\ rendered = ResetState
    /\ effectPending = FALSE
    /\ thinkingStartTime = NullTime
    /\ prevMessage = NoMessage
    /\ nChunks = 0
    /\ startState = ResetState
    /\ continued = FALSE
    /\ lastEnd = "none"
    /\ lastChunk = <<>>
    /\ relayPc = "idle"
    /\ relayRequest = <<>>
    /\ upstreamCalls = <<>>

\* A variant of handleSubmit that also resets StreamingState.
SubmitResets(text) ==
    /\ ~isLoading
    /\ ~effectPending
    /\ lastMessage' = [role |-> "user", content |-> text]
    /\ prevMessage' = lastMessage
    /\ isLoading' = TRUE
    /\ effectPending' = TRUE
    /\ streamingState' = ResetState
    /\ rendered' = ResetState
    /\ thinkingStartTime' = NullTime
    /\ continued' = FALSE
    /\ startState' = ResetState
    /\ lastChunk' = <<>>
    /\ UNCHANGED <<arrived, nChunks, lastEnd>>
    /\ UNCHANGED relayVars

\* handleSubmit, reached through the submit button, which is disabled while
\* isLoading: the user message is appended and the request starts. The render
\* with the new list is committed (pending effects run before a user event is
\* handled).
Submit(text) ==
    /\ ~isLoading
    /\ ~effectPending
    /\ lastMessage' = [role |-> "user", content |-> text]
    /\ prevMessage' = lastMessage
    /\ isLoading' = TRUE
    /\ effectPending' = TRUE
    /\ continued' = FALSE
    /\ startState' = ResetState
    /\ lastChunk' = <<>>
    /\ UNCHANGED <<arrived, streamingState, rendered, thinkingStartTime,
                   nChunks, lastEnd>>
    /\ UNCHANGED relayVars

\* A chunk arrives: the first one appends the assistant message, the later
\* ones extend its content, and the render with the new list is committed.
\* The effect of the previous render has run by then. (Chunks that arrive
\* before React renders are one chunk here.)
StreamChunk(chunk) ==
    /\ isLoading
    /\ ~effectPending
    /\ nChunks < MaxChunks
    /\ lastMessage' = Extended(lastMessage, chunk)
    /\ effectPending' = TRUE
    /\ prevMessage' = NoMessage
    /\ startState' = IF lastMessage.role = "assistant" THEN startState
                     ELSE streamingState
    /\ continued' = (lastMessage.role = "assistant")
    /\ nChunks' = nChunks + 1
    /\ lastChunk' = chunk
    /\ UNCHANGED <<arrived, isLoading, streamingState, rendered,
                   thinkingStartTime, lastEnd>>
    /\ UNCHANGED relayVars

\* The effect on `messages` (lines 68-107) of the last committed render runs:
\* its branch is chosen from the streamingState of that render, its write is
\* applied to the cell, the ref is written, and the next render is committed,
\* with the new streamingState and, when a chunk has arrived meanwhile, with
\* the list that holds it (the effect of that render is then pending).
StreamingEffectRun ==
    /\ effectPending
    /\ streamingState' = RunEffect(rendered, streamingState, lastMessage)
    /\ \E now \in 1..MaxClock :
           thinkingStartTime' = RunTiming(thinkingStartTime, lastMessage, now)
    /\ rendered' = streamingState'
    /\ IF arrived = NoChunk
       THEN /\ effectPending' = FALSE
            /\ UNCHANGED <<lastMessage, arrived, startState, continued,
                           lastChunk>>
       ELSE /\ lastMessage' = Extended(lastMessage, arrived)
            /\ arrived' = NoChunk
            /\ effectPending' = TRUE
            /\ startState' = IF lastMessage.role = "assistant" THEN startState
                             ELSE streamingState'
            /\ continued' = (lastMessage.role = "assistant")
            /\ lastChunk' = arrived
    /\ UNCHANGED <<isLoading, prevMessage, nChunks, lastEnd>>
    /\ UNCHANGED relayVars

\* The stream ends normally: useChat calls onFinish (lines 58-63). When an
\* effect is pending, it runs before the render with the reset state.
Finish ==
    /\ isLoading
    /\ streamingState' = ResetState
    /\ thinkingStartTime' = NullTime
    /\ rendered' = IF effectPending THEN rendered ELSE ResetState
    /\ isLoading' = FALSE
    /\ lastEnd' = "finish"
    /\ prevMessage' = NoMessage
    /\ UNCHANGED <<lastMessage, arrived, effectPending, nChunks, startState,
                   continued, lastChunk>>
    /\ UNCHANGED relayVars

\* The last chunk and the normal end are delivered before React renders:
\* onFinish resets the cell and the ref. With no effect pending, one render is
\* committed, with the new list and the reset state, and its effect is
\* pending. With the effect of the last render still pending, that effect runs
\* first (StreamingEffectRun) and the chunk waits for the render after it.
StreamChunkAndFinish(chunk) ==
    /\ isLoading
    /\ nChunks < MaxChunks
    /\ streamingState' = ResetState
    /\ thinkingStartTime' = NullTime
    /\ isLoading' = FALSE
    /\ lastEnd' = "finish"
    /\ prevMessage' = NoMessage
    /\ nChunks' = nChunks + 1
    /\ IF effectPending
       THEN /\ arrived' = chunk
            /\ UNCHANGED <<lastMessage, rendered, effectPending, startState,
                           continued, lastChunk>>
       ELSE /\ lastMessage' = Extended(lastMessage, chunk)
            /\ rendered' = ResetState
            /\ effectPending' = TRUE
            /\ startState' = IF lastMessage.role = "assistant" THEN startState
                             ELSE ResetState
            /\ continued' = (lastMessage.role = "assistant")
            /\ lastChunk' = chunk
            /\ UNCHANGED arrived
    /\ UNCHANGED relayVars

\* The stream ends by a transport failure: onFinish is not called.
Fail ==
    /\ isLoading
    /\ isLoading' = FALSE
    /\ lastEnd' = "fail"
    /\ prevMessage' = NoMessage
    /\ UNCHANGED <<lastMessage, arrived, streamingState, rendered,
                   effectPending, thinkingStartTime, nChunks, startState,
                   continued, lastChunk>>
    /\ UNCHANGED relayVars

\* The request fails before a response and useChat puts `messages` back to
\* the list before the submit (useChat is not part of the repository; whether
\* it does so is left open: this action and Fail are both possible). The
\* render with the restored list is committed and its effect is pending.
FailRestore ==
    /\ isLoading
    /\ lastMessage.role = "user"
    /\ lastMessage' = prevMessage
    /\ prevMessage' = NoMessage
    /\ effectPending' = TRUE
    /\ isLoading' = FALSE
    /\ lastEnd' = "fail"
    /\ startState' = streamingState
    /\ continued' = FALSE
    /\ UNCHANGED <<arrived, streamingState, rendered, thinkingStartTime,
                   nChunks, lastChunk>>
    /\ UNCHANGED relayVars

Next ==
    \/ \E text \in UserInputs : Submit(text)
    \/ \E chunk \in Chunks : StreamChunk(chunk)
    \/ StreamingEffectRun
    \/ Finish
    \/ \E chunk \in Chunks : StreamChunkAndFinish(chunk)
    \/ Fail
    \/ FailRestore

Spec == Init /\ [][Next]_vars

\* The runs in which every stream ends normally (onFinish is called).
NoFailNext ==
    \/ \E text \in UserInputs : Submit(text)
    \/ \E chunk \in Chunks : StreamChunk(chunk)
    \/ StreamingEffectRun
    \/ Finish
    \/ \E chunk \in Chunks : StreamChunkAndFinish(chunk)

NoFailSpec == Init /\ [][NoFailNext]_vars

------------------------------------------------------------------------------
\* The relay: POST of route.ts, one invocation at a time (an invocation holds
\* only local variables). The relay never looks inside a message's content,
\* so contents are opaque strings here.

SystemMessage == [role |-> "system", content |-> "You are a helpful assistant."]

Roles == {"user", "assistant", "system"}

\* The messages a request may carry; a message may hold fields besides role
\* and content (useChat's id).
RequestMessages ==
    [role : Roles, content : {"Hi", "<think>a</think>b"}, id : {"m"}]

\* The request bodies: message lists of length 0..MaxMessages.
RequestLists == UNION { [1..n -> RequestMessages] : n \in 0..MaxMessages }

\* A variant that adds the system message at the end of the list.
AugmentAtEnd(messages) == messages \o <<SystemMessage>>

\* const augmentedMessages = [systemMessage, ...messages]
Augment(messages) == <<SystemMessage>> \o messages

\* augmentedMessages.map(message => ({content, role})): the `messages` argument
\* of the upstream call.
UpstreamMessages(messages) ==
    [i \in 1..Len(Augment(messages)) |->
        [content |-> Augment(messages)[i].content,
         role    |-> Augment(messages)[i].role]]

\* A request arrives and its body is parsed.
RelayPost(messages) ==
    /\ relayPc \in {"idle", "done"}
    /\ relayPc' = "parsed"
    /\ relayRequest' = messages
    /\ upstreamCalls' = <<>>
    /\ UNCHANGED chatVars

\* client.chat.completions.create is called with the augmented list; it
\* resolves to a stream or rejects (no retry).
RelayCreate ==
    /\ relayPc = "parsed"
    /\ upstreamCalls' = Append(upstreamCalls, UpstreamMessages(relayRequest))
    /\ relayPc' \in {"streaming", "failed"}
    /\ UNCHANGED <<relayRequest, chatVars>>

\* The handler returns the streaming response, or its rejection propagates.
RelayReturn ==
    /\ relayPc \in {"streaming", "failed"}
    /\ relayPc' = "done"
    /\ UNCHANGED <<relayRequest, upstreamCalls, chatVars>>

RelayNext ==
    \/ \E messages \in RequestLists : RelayPost(messages)
    \/ RelayCreate
    \/ RelayReturn

RelaySpec == Init /\ [][RelayNext]_vars

------------------------------------------------------------------------------
\* Vocabulary of the properties. These are written from the statements being
\* checked, not from the operators above: positions are found by direct
\* quantification over the buffer.

buffer == lastMessage.content

\* streamingState is the outcome of the effect on the last assistant message:
\* the effect has run, and the stream is in flight or it ended by a failure
\* (no reset).
Evaluated ==
    /\ lastMessage.role = "assistant"
    /\ ~effectPending
    /\ (isLoading \/ lastEnd = "fail")

\* This step is a run of the streaming effect (alone, or followed by the
\* render of a chunk that had arrived).
EffectStep == effectPending /\ (~effectPending' \/ arrived # NoChunk)

\* This step is an evaluation of the last assistant message.
Evaluation == EffectStep /\ lastMessage.role = "assistant"

\* This step is an evaluation of a further chunk of an assistant message that
\* was evaluated before.
SameMessageChunk == Evaluation /\ continued

\* The buffer of the last message before its last chunk was appended.
PreviousBuffer == SubSeq(buffer, 1, Len(buffer) - Len(lastChunk))

OpenPositions(b) == { i \in 1..Len(b) : StartsAt(b, OpenTag, i) }

ClosePositionsAfter(b, o) ==
    { j \in (o + 1)..Len(b) : StartsAt(b, CloseTag, j) }

\* b holds an opening tag followed later by a closing tag.
HasPair(b) == \E o \in OpenPositions(b) : ClosePositionsAfter(b, o) # {}

\* b holds an opening tag and no closing tag after it.
HasOpenOnly(b) == OpenPositions(b) # {} /\ ~HasPair(b)

FirstOpen(b) == SetMin(OpenPositions(b))

FirstClose(b) == SetMin(ClosePositionsAfter(b, FirstOpen(b)))

\* The text strictly between the first opening tag and the first closing tag
\* after it.
Interior(b) == SubSeq(b, FirstOpen(b) + Len(OpenTag), FirstClose(b) - 1)

\* b with that first tagged region, both tags included, removed.
Remainder(b) ==
    SubSeq(b, 1, FirstOpen(b) - 1) \o SubSeq(b, FirstClose(b) + Len(CloseTag), Len(b))

\* The text that follows the first opening tag.
AfterOpen(b) == SubSeq(b, FirstOpen(b) + Len(OpenTag), Len(b))

IsPrefix(s, t) == Len(s) <= Len(t) /\ SubSeq(t, 1, Len(s)) = s

------------------------------------------------------------------------------
\* C1: for a buffer with an opening tag followed later by a closing tag, the
\* effect yields isThinking = false, thinking = the trimmed text between the
\* first opening tag and the first closing tag after it, content = the trimmed
\* buffer with that first region removed (further tags stay in content), and
\* parseMessage returns the same thinking and content.
C1_MatchedPairSplit ==
    (lastMessage.role = "assistant" /\ HasPair(buffer)) =>
        /\ parseMessage(buffer) =
               [thinking |-> Trim(Interior(buffer)),
                content  |-> Trim(Remainder(buffer))]
        /\ Evaluated =>
               streamingState =
                   [thinking   |-> Trim(Interior(buffer)),
                    content    |-> Trim(Remainder(buffer)),
                    isThinking |-> FALSE]

\* A matched pair was evaluated and a further closing tag is left in content.
C1_Witness ==
    /\ Evaluated
    /\ HasPair(buffer)
    /\ Includes(streamingState.content, CloseTag)
    /\ ~streamingState.isThinking

\* C2: for a buffer with an opening tag and no matching closing tag, the
\* effect yields isThinking = true, content = "" and thinking = the trimmed
\* text that follows the opening tag (nothing of what precedes the tag).
C2_OpenTagOnlySplit ==
    (Evaluated /\ HasOpenOnly(buffer)) =>
        streamingState =
            [thinking   |-> Trim(AfterOpen(buffer)),
             content    |-> <<>>,
             isThinking |-> TRUE]

\* C3: isThinking is a one-way latch per message: once an evaluation of a
\* message has left isThinking = false, every later evaluation of the same
\* message leaves it false.
C3_ThinkingLatch ==
    [][(SameMessageChunk /\ ~streamingState.isThinking)
           => ~streamingState'.isThinking]_vars

\* C4: StreamingState is the reset state after every stream has finished
\* (until the next one begins), and every assistant message begins (its first
\* chunk is evaluated) from the reset state, whatever submits, chunks, finishes
\* and failed streams precede.
C4_ResetAtMessageStart ==
    /\ (lastEnd = "finish" /\ ~isLoading) => streamingState = ResetState
    /\ lastMessage.role = "assistant" => startState = ResetState

\* C5: the split does not depend on the chunking: for a message begun from the
\* reset state, the state after the last chunk is the state a single chunk
\* holding the whole buffer gives.
C5_ChunkingIndependent ==
    (/\ lastMessage.role = "assistant"
     /\ isLoading
     /\ ~effectPending
     /\ startState = ResetState) =>
        streamingState = StreamingEffect(ResetState, ResetState, buffer)

\* A closing tag was completed by the chunk "ink>" (the tag was cut by a chunk
\* boundary) in a message begun from the reset state.
C5_Witness ==
    /\ lastMessage.role = "assistant"
    /\ isLoading
    /\ ~effectPending
    /\ startState = ResetState
    /\ lastChunk = <<"i", "n", "k", ">">>
    /\ HasPair(buffer)
    /\ ~streamingState.isThinking

\* C6: whenever the latest assistant message holds an opening tag and no
\* closing tag, during streaming and after the stream has ended, no answer
\* text is shown for it.
C6_UnclosedShowsNoAnswer ==
    (lastMessage.role = "assistant" /\ HasOpenOnly(buffer)) => ShownAnswer = <<>>

\* C7: a failed stream is scoped to its own request: every evaluation of the
\* assistant message that follows a failed stream gives the state it gives in
\* the run without the failed stream. (In that run the message begins from the
\* state the stream before the failed one left, the reset state when that
\* stream was evaluated to its end before onFinish; the state after the last
\* chunk is then the effect of the whole buffer on the reset state.)
C7_FailureScoped ==
    (/\ lastMessage.role = "assistant"
     /\ isLoading
     /\ ~effectPending
     /\ lastEnd = "fail") =>
        streamingState = StreamingEffect(ResetState, ResetState, buffer)

\* C8: a buffer without opening tag, evaluated while isThinking is true (as
\* the effect reads it, from the render that scheduled it), sets thinking to
\* the whole trimmed buffer, keeps isThinking true and leaves content
\* unchanged.
C8_ThinkingModeBranch ==
    [][(/\ Evaluation
        /\ ~Includes(buffer, OpenTag)
        /\ rendered.isThinking)
           => /\ streamingState'.thinking = Trim(buffer)
              /\ streamingState.isThinking
              /\ streamingState'.isThinking
              /\ streamingState'.content = streamingState.content]_vars

\* A tag-free buffer with blanks at its ends was evaluated in thinking mode.
C8_Witness ==
    /\ Evaluated
    /\ OpenPositions(buffer) = {}
    /\ streamingState.isThinking
    /\ streamingState.thinking # <<>>
    /\ streamingState.thinking # buffer

\* C9: the matched-pair case is terminal and stable: once an evaluation has
\* found both tags in the buffer (the render before the chunk showed its
\* result), the evaluation of every later chunk of the same message leaves
\* thinking unchanged and isThinking false, and the previous content is a
\* prefix of the new content, also when the chunk brings further tags.
C9_MatchedPairStable ==
    [][(SameMessageChunk /\ HasPair(PreviousBuffer) /\ ~rendered.isThinking)
           => /\ streamingState'.thinking = rendered.thinking
              /\ ~streamingState'.isThinking
              /\ IsPrefix(rendered.content, streamingState'.content)]_vars

\* After a matched pair, a further opening tag arrived and sits in content.
C9_Witness ==
    /\ Evaluated
    /\ HasPair(buffer)
    /\ ~streamingState.isThinking
    /\ Includes(streamingState.content, OpenTag)

\* The buffers a new message may begin with, evaluated from the state the
\* last render shows: the buffer of the last message (with or without tags,
\* as the run has built it), and a first chunk of each kind (a letter, a
\* blank, an opening tag).
CandidateBuffers == { buffer, <<"a">>, <<" ">>, OpenTag }

\* C10: evaluation is idempotent: from every reachable StreamingState,
\* evaluating a buffer twice in a row gives what evaluating it once gives.
\* The first evaluation is the one the program performs: the pending effect on
\* the buffer of the last assistant message, its branch chosen from the
\* render that scheduled it and its write applied to the current state; or,
\* with no effect pending, an evaluation of a buffer from the state the render
\* shows. The second follows the render of the first one's result.
C10_Idempotent ==
    /\ (effectPending /\ lastMessage.role = "assistant") =>
           LET once == StreamingEffect(rendered, streamingState, buffer)
           IN  StreamingEffect(once, once, buffer) = once
    /\ ~effectPending =>
           \A b \in CandidateBuffers :
               LET once == StreamingEffect(rendered, streamingState, b)
               IN  StreamingEffect(once, once, b) = once

------------------------------------------------------------------------------
\* C11: for a request carrying the list M, the relay makes one upstream call,
\* with a list of length |M| + 1 whose first element is the fixed system
\* message and whose other elements are the role/content pairs of M in order;
\* before the call nothing has been sent upstream.
C11_RelayForwardsAugmented ==
    /\ relayPc = "parsed" => upstreamCalls = <<>>
    /\ relayPc \in {"streaming", "failed", "done"} =>
           /\ Len(upstreamCalls) = 1
           /\ Len(upstreamCalls[1]) = Len(relayRequest) + 1
           /\ upstreamCalls[1][1] =
                  [role |-> "system", content |-> "You are a helpful assistant."]
           /\ \A i \in 1..Len(relayRequest) :
                  upstreamCalls[1][i + 1] =
                      [role    |-> relayRequest[i].role,
                       content |-> relayRequest[i].content]

\* A request with two different messages was forwarded.
C11_Witness ==
    /\ relayPc = "streaming"
    /\ Len(relayRequest) = 2
    /\ relayRequest[1].role = "user"
    /\ relayRequest[2].role = "assistant"
    /\ relayRequest[1].content # relayRequest[2].content
    /\ Len(upstreamCalls) = 1

------------------------------------------------------------------------------
\* Steps, for the properties below.

\* This step is the finish callback of a stream.
FinishStep == isLoading /\ ~isLoading' /\ lastEnd' = "finish"

\* C12: a buffer without opening tag, evaluated while isThinking is false,
\* sets content to the whole trimmed buffer and leaves thinking and isThinking
\* unchanged.
C12_ContentModeBranch ==
    [][(/\ Evaluation
        /\ ~Includes(buffer, OpenTag)
        /\ ~rendered.isThinking)
           => /\ streamingState'.content = Trim(buffer)
              /\ streamingState'.thinking = streamingState.thinking
              /\ streamingState'.isThinking = streamingState.isThinking]_vars

\* A tag-free buffer was evaluated in content mode, with thinking text held.
C12_Witness ==
    /\ Evaluated
    /\ OpenPositions(buffer) = {}
    /\ ~streamingState.isThinking
    /\ streamingState.content # <<>>
    /\ streamingState.thinking # <<>>

\* C13: the view of the in-flight assistant message is a function of
\* StreamingState alone: in every committed render the thinking panel shows
\* the StreamingState.thinking of that render iff that is non-empty, and the
\* answer text is its StreamingState.content iff that is non-empty.
C13_ViewIsStreamingState ==
    (lastMessage.role = "assistant" /\ isLoading) =>
        /\ ShownThinking = rendered.thinking
        /\ ShownAnswer = rendered.content

\* C14 as stated: the streaming effect is the only writer of StreamingState.
C14_SingleWriter ==
    [][streamingState' # streamingState => EffectStep]_vars

\* C14, amended: every step that changes StreamingState is a run of the
\* streaming effect, or the finish callback, which sets the reset state.
C14_EffectOrFinish ==
    [][streamingState' # streamingState =>
           \/ EffectStep
           \/ FinishStep /\ streamingState' = ResetState]_vars

\* A finish callback has reset a non-empty StreamingState.
C14_Witness ==
    /\ ~isLoading
    /\ lastEnd = "finish"
    /\ lastMessage.role = "assistant"
    /\ Trim(buffer) # <<>>
    /\ streamingState = ResetState

\* C15: in every reachable state isThinking = true implies content = "".
C15_ThinkingHoldsNoContent ==
    streamingState.isThinking => streamingState.content = <<>>

\* C16: when a stream finishes (its last chunk evaluated and shown), the
\* thinking text and the answer text shown for the message after the reset
\* are those shown after its last chunk.
C16_FinishKeepsView ==
    [][(/\ FinishStep
        /\ lastMessage.role = "assistant"
        /\ lastMessage' = lastMessage
        /\ ~effectPending)
           => /\ ShownThinking' = ShownThinking
              /\ ShownAnswer' = ShownAnswer]_vars

\* C17: in the runs in which every stream ends with the finish callback
\* (NoFailSpec) no evaluation takes the content-mode branch (buffer without
\* opening tag, isThinking read as false).
C17_ContentModeUnreached ==
    [][Evaluation
           => ~(/\ ~Includes(buffer, OpenTag)
                /\ ~rendered.isThinking)]_vars

\* C18: the effect of a change of the message list whose last message is not
\* an assistant message (empty list, user message) leaves StreamingState and
\* the thinking start time unchanged.
C18_NonAssistantFrame ==
    [][(EffectStep /\ lastMessage.role # "assistant")
           => /\ streamingState' = streamingState
              /\ thinkingStartTime' = thinkingStartTime]_vars

\* A user message that holds a tag was appended and the effect has run on it,
\* while StreamingState and the start time were set.
C18_Witness ==
    /\ lastMessage.role = "user"
    /\ isLoading
    /\ ~effectPending
    /\ Includes(lastMessage.content, OpenTag)
    /\ streamingState # ResetState
    /\ thinkingStartTime # NullTime

====
